---------------------------- MODULE Spec2Model ----------------------------
(***************************************************************************)
(* The browser client of the RAG chat application: the AuthContext         *)
(* provider (anonymous quota, login, register / promote, logout), the      *)
(* useChat hook (send, streamed response, completion), the SSE reader      *)
(* ApiClient.streamMessage, and the ChatPage handlers that wire them.      *)
(* The backend is not part of the source tree; the little of it the        *)
(* client's behaviour depends on (session ownership, promotion) is         *)
(* modelled from the specification and marked as such.                     *)
(*                                                                         *)
(* Strings of the wire are sequences of tokens: a token stands for a run   *)
(* of characters the transport may cut around ("data: ", "{", the JSON     *)
(* body, "}", a newline, the two halves of the end marker).                *)
(***************************************************************************)
EXTENDS Integers, Sequences, FiniteSets, TLC

\* ------------------------------------------------------------------ bounds
\* chat requests started in one behaviour of Spec
MaxSends == 2
\* frames the server emits before the end marker, in SpecStream
MaxFrames == 2
\* read chunks the transport divides one response into, in SpecStream
MaxChunks == 2
\* chat requests started in one behaviour of SpecSessions
MaxSessionSends == 1
\* passages the index holds near a question, in SpecRetrieval
MaxCandidates == 4
\* messages of a session's log, in SpecPaging
MaxLog == 4
\* the largest page size a reader asks for, in SpecPaging
MaxLimit == 2
\* deletes of sessions in flight together, in SpecCache
MaxDeletes == 2

\* ------------------------------------------------------- program constants
ANONYMOUS_MESSAGE_LIMIT == 3
PINECONE_TOP_K == 3
PINECONE_SIMILARITY_THRESHOLD == 75

Null == "null"
Undefined == "undefined"
\* the one access token the backend hands out, the one account, the one
\* anonymous identity of this browser
Jwt == "jwt"
UserId == "user-1"
AnonToken == "anon-1"
SessionOrder == <<"s1", "s2", "s3">>
SessionIds == {SessionOrder[i] : i \in 1..Len(SessionOrder)}

\* ----------------------------------------------------------- SSE tokens
PREFIX == "data: "
NL == "\n"
DoneMarker == <<"[DO", "NE]">>

\* ids of the JSON objects the backend may put in a frame
ObjIds == {"cA", "cB", "cE", "src", "meta", "metaN", "err"}

\* JSON.parse(dataStr): the parsed object, or a throw
JsonParse(dataStr) ==
    IF Len(dataStr) = 3 /\ dataStr[1] = "{" /\ dataStr[3] = "}" /\ dataStr[2] \in ObjIds
    THEN [ok |-> TRUE, id |-> dataStr[2]]
    ELSE [ok |-> FALSE, id |-> Null]

\* parsed.type
ObjType(id) ==
    CASE id \in {"cA", "cB", "cE"} -> "content"
      [] id = "src" -> "sources"
      [] id \in {"meta", "metaN"} -> "metadata"
      [] OTHER -> "error"

\* parsed.data of a content frame: the token text ("" for cE)
ObjData(id) ==
    CASE id = "cA" -> <<"a">>
      [] id = "cB" -> <<"b">>
      [] OTHER -> <<>>

\* parsed.data of a sources frame: the citation list
ObjSources(id) == IF id = "src" THEN <<"cit1">> ELSE <<>>

\* a key session_id at the top level of the parsed object ("meta" is the
\* flat form {type, session_id}; "metaN" nests it under data)
ObjHasSessionId(id) == id = "meta"

NoItem == [type |-> "none", data |-> <<>>, hasSid |-> FALSE, sid |-> Null,
           hasSources |-> FALSE, sources |-> <<>>]

\* chunk.split('\n')
RECURSIVE Split(_)
Split(text) ==
    IF \E i \in 1..Len(text) : text[i] = NL
    THEN LET i == CHOOSE j \in 1..Len(text) :
                      text[j] = NL /\ \A k \in 1..(j-1) : text[k] # NL
         IN  <<SubSeq(text, 1, i-1)>> \o Split(SubSeq(text, i+1, Len(text)))
    ELSE <<text>>

\* a faulty catch block: the generator returns at the line it cannot parse
OnParseErrorEndsStream == [kind |-> "done", item |-> NoItem]

\* the catch block of the line loop: the line is skipped
OnParseError == [kind |-> "skip", item |-> NoItem]

\* one pass of the body of `for (const line of lines)`; sid is the session
\* id the backend filled into this response's metadata frame
ProcessLine(line, sid) ==
    IF line = <<>> \/ Head(line) # PREFIX
    THEN [kind |-> "skip", item |-> NoItem]
    ELSE LET dataStr == Tail(line)
             p == JsonParse(dataStr)
         IN  IF dataStr = DoneMarker THEN [kind |-> "done", item |-> NoItem]
             ELSE IF ~p.ok THEN OnParseError
             ELSE IF ObjType(p.id) = "content" /\ ObjData(p.id) # <<>>
                  THEN [kind |-> "yield",
                        item |-> [NoItem EXCEPT !.type = "content", !.data = ObjData(p.id)]]
             ELSE IF ObjType(p.id) = "sources" /\ ObjSources(p.id) # <<>>
                  THEN [kind |-> "yield",
                        item |-> [NoItem EXCEPT !.type = "metadata", !.hasSources = TRUE,
                                                !.sources = ObjSources(p.id)]]
             ELSE IF ObjType(p.id) = "metadata" \/ ObjHasSessionId(p.id)
                  THEN [kind |-> "yield",
                        item |-> [NoItem EXCEPT !.type = "metadata",
                                                !.hasSid = ObjHasSessionId(p.id),
                                                !.sid = IF ObjHasSessionId(p.id) THEN sid ELSE Null]]
             ELSE [kind |-> "skip", item |-> NoItem]

\* the line loop over one decoded chunk: the items yielded, in order, and
\* whether the end marker made the generator return
RECURSIVE ProcessLines(_, _)
ProcessLines(lines, sid) ==
    IF lines = <<>> THEN [items |-> <<>>, done |-> FALSE]
    ELSE LET r == ProcessLine(Head(lines), sid)
         IN  IF r.kind = "done" THEN [items |-> <<>>, done |-> TRUE]
             ELSE LET rest == ProcessLines(Tail(lines), sid)
                  IN  [items |-> (IF r.kind = "yield" THEN <<r.item>> ELSE <<>>) \o rest.items,
                       done |-> rest.done]

ProcessChunk(chunk, sid) == ProcessLines(Split(chunk), sid)

\* the body of `for await (const chunk of ...)` in useChat's mutationFn,
\* folded over the items one read yields; acc = [fullResponse, metadata]
RECURSIVE Consume(_, _)
Consume(acc, items) ==
    IF items = <<>> THEN acc
    ELSE LET it == Head(items)
             next == IF it.type = "content"
                     THEN [acc EXCEPT !.fullResponse = @ \o it.data]
                     ELSE [acc EXCEPT !.session_id = IF it.hasSid THEN it.sid ELSE @,
                                      !.sources = IF it.hasSources THEN it.sources ELSE @]
         IN  Consume(next, Tail(items))


\* ------------------------------------------------------------------ state
VARIABLES
    state,            \* AuthProvider's AuthState
    localStorage,     \* the three keys the client uses
    authCall,         \* the login / register / promote call in flight
    messages,         \* useChat: the displayed message list
    sources,          \* useChat: index of an assistant message -> citations
    streamingContent, \* useChat
    isStreaming,      \* useChat
    send,             \* the sendMessageMutation in flight and mutationFn's locals
    net,              \* the read chunks of the response body still to arrive
    emitted,          \* backend: the frames written on this response, its session,
                      \* and the reads the transport divided the body into
    currentSessionId, \* useChatSessions
    limitModalOpen,   \* ChatPage
    owner,            \* backend: owner of each session
    log,              \* backend: the message log of each session
    nSends,           \* how many chat requests have been started
    anonSends,        \* history: successful sends made as the anonymous token
    promoted,         \* history: the anonymous token has been promoted
    selectCall,       \* useChatSessions: the selectSessionMutation in flight
    deleteCall,       \* useChatSessions: the deleteSessionMutation in flight
    retrieval,        \* backend: the retrieval of the request being handled
    listing,          \* a reader paging through the messages of a session
    tabB,             \* the page open in a second tab of the same browser
    sessionsQuery     \* the ['sessions'] query of the QueryClient: the cached
                      \* list, and the history its deletes are measured by

vars == <<state, localStorage, authCall, messages, sources, streamingContent,
          isStreaming, send, net, emitted, currentSessionId, limitModalOpen,
          owner, log, nSends, anonSends, promoted, selectCall, deleteCall, retrieval, listing, tabB, sessionsQuery>>

authVars == <<state, localStorage, authCall>>
chatVars == <<messages, sources, streamingContent, isStreaming, send, net, emitted>>
serverVars == <<owner, log>>
sessionCalls == <<selectCall, deleteCall>>

\* number.toString() and parseInt(s, 10) on the counts the client stores
Digits == <<"0", "1", "2", "3", "4", "5", "6", "7", "8", "9">>
toString(n) == Digits[n + 1]
ParseInt(s) == CHOOSE n \in 0..9 : Digits[n + 1] = s

\* parseInt(localStorage.getItem(MESSAGE_COUNT_KEY) || '0', 10)
StoredCount(ls) ==
    ParseInt(IF ls.anonymous_message_count = Null THEN "0" ELSE ls.anonymous_message_count)

\* useState's initial AuthState
InitialAuthState ==
    [user |-> Null, isAuthenticated |-> FALSE, isAnonymous |-> TRUE,
     anonymousMessageCount |-> 0, loading |-> TRUE]

NoCall == [kind |-> "none", anonymous_session_id |-> Null, resp |-> "none"]

IdleSend == [phase |-> "idle", id |-> 0, sessionId |-> Undefined, bearer |-> Null,
             fullResponse |-> <<>>, session_id |-> "", sources |-> <<>>,
             done |-> FALSE, locked |-> FALSE]

NoSources == [i \in {} |-> <<>>]

NoResponse == [frames |-> <<>>, session_id |-> Null, chunks |-> <<>>, done |-> FALSE,
               trail |-> <<>>]

NoSelect == [phase |-> "idle", sessionId |-> Undefined, messages |-> <<>>]
\* no delete of a session in flight; deleteCall holds one of these for each
\* session, previousSessions being the context onMutate returns
NoDelete == [phase |-> "idle", current |-> Undefined, wasGone |-> FALSE,
             previousSessions |-> <<>>]
NoDeletes == [s \in SessionIds |-> NoDelete]

\* the ['sessions'] query before its first fetch; expected and clean are
\* history: the list cached when the first of the deletes now in flight
\* began without the sessions whose delete has succeeded since, and whether
\* no fetch has replaced the cached list in between
NoQuery == [data |-> <<>>, expected |-> <<>>, clean |-> TRUE]

\* the log l after the store has appended the entries, each stamped with the
\* time of its append: tick later than the message before it
LastTimestamp(l) == IF l = <<>> THEN 0 ELSE l[Len(l)].timestamp

RECURSIVE Stamped(_, _, _)
Stamped(l, entries, tick) ==
    IF entries = <<>> THEN l
    ELSE LET e == Head(entries)
         IN  Stamped(Append(l, [role |-> e.role, content |-> e.content, req |-> e.req,
                                sources |-> e.sources,
                                timestamp |-> LastTimestamp(l) + tick]),
                     Tail(entries), tick)

\* no second tab is open
NoTab == [phase |-> "closed", anonymousMessageCount |-> 0,
          currentSessionId |-> Undefined, sends |-> 0]

\* no reader is paging
NoListing == [session |-> Undefined, limit |-> 0, cursor |-> 0, seen |-> <<>>,
              has_more |-> TRUE, totals |-> <<>>]

\* no request is being handled by the retriever
NoRetrieval == [phase |-> "idle", candidates |-> <<>>, matches |-> <<>>,
                citations |-> <<>>]

\* the backend's log of a session after n complete exchanges of earlier visits
RECURSIVE PriorLog(_)
PriorLog(n) ==
    IF n = 0 THEN <<>>
    ELSE PriorLog(n - 1) \o
         <<[role |-> "user", content |-> <<"q">>, req |-> 0, sources |-> <<>>],
           [role |-> "assistant", content |-> <<"a">>, req |-> 0, sources |-> <<"cit1">>]>>

\* The page is constructed in a browser that earlier visits of the anonymous
\* client may have used: they left prior successful sends counted under
\* MESSAGE_COUNT_KEY and logged by the backend in up to nSessions sessions
\* (one exchange in each but the first, which holds the rest). SESSION_ID_KEY
\* holds the anonymous identity or nothing (no file of the source tree writes
\* this key; AuthContext only reads and removes it).
InitOver(priors, keys, nSessions) ==
    /\ state = InitialAuthState
    /\ \E prior \in priors, key \in keys :
         /\ localStorage = [access_token |-> Null,
                            anonymous_message_count |->
                                IF prior = 0 THEN Null ELSE toString(prior),
                            eloquent_session_id |-> key]
         /\ anonSends = prior
         /\ owner = [s \in SessionIds |->
                        IF \E i \in 1..nSessions : i <= prior /\ s = SessionOrder[i]
                        THEN AnonToken ELSE "none"]
         /\ log = [s \in SessionIds |->
                      IF prior > 0 /\ s = SessionOrder[1]
                      THEN Stamped(<<>>, PriorLog(IF prior >= nSessions
                                                  THEN prior - (nSessions - 1) ELSE 1), 1)
                      ELSE IF \E i \in 2..nSessions : i <= prior /\ s = SessionOrder[i]
                      THEN Stamped(<<>>, PriorLog(1), 1)
                      ELSE <<>>]
    /\ authCall = NoCall
    /\ messages = <<>>
    /\ sources = NoSources
    /\ streamingContent = <<>>
    /\ isStreaming = FALSE
    /\ send = IdleSend
    /\ net = <<>>
    /\ emitted = NoResponse
    /\ currentSessionId = Undefined
    /\ limitModalOpen = FALSE
    /\ nSends = 0
    /\ promoted = FALSE
    /\ selectCall = NoSelect
    /\ deleteCall = NoDeletes
    /\ retrieval = NoRetrieval
    /\ listing = NoListing
    /\ tabB = NoTab
    /\ sessionsQuery = NoQuery

\* the same with all the prior sends in one session
InitWith(priors, keys) == InitOver(priors, keys, 1)

Init == InitWith(0..ANONYMOUS_MESSAGE_LIMIT, {Null, AnonToken})

\* React runs the mount effect after the first commit and before it renders
\* again: a handler that needs an earlier re-render (typed text, an opened
\* modal or menu) and every continuation of a network call finds it done.
\* Only a single click on what the first render shows can come before it.
mounted == ~state.loading

\* sendMessageMutation.isPending
isLoading == send.phase \in {"fetch", "reading"}

\* ------------------------------------------------------------ AuthContext
\* the mount effect of AuthProvider
Mount ==
    /\ state.loading
    /\ state' = IF localStorage.access_token # Null
                THEN [state EXCEPT !.isAuthenticated = TRUE, !.isAnonymous = FALSE,
                                   !.loading = FALSE]
                ELSE [state EXCEPT !.anonymousMessageCount = StoredCount(localStorage),
                                   !.loading = FALSE]
    /\ UNCHANGED <<localStorage, authCall, chatVars, currentSessionId, limitModalOpen,
                   serverVars, nSends, anonSends, promoted, sessionCalls, retrieval, listing, tabB, sessionsQuery>>

\* a faulty canSendMessage: the comparison admits the send at the limit
canSendMessageAtLimit ==
    IF state.isAuthenticated THEN TRUE
    ELSE state.anonymousMessageCount <= ANONYMOUS_MESSAGE_LIMIT

canSendMessage ==
    IF state.isAuthenticated THEN TRUE
    ELSE state.anonymousMessageCount < ANONYMOUS_MESSAGE_LIMIT

getAnonymousSessionId == localStorage.eloquent_session_id

\* a faulty register: promote is called without the anonymous session id
RegisterCallNoToken ==
    IF getAnonymousSessionId # Null /\ state.anonymousMessageCount > 0
    THEN [kind |-> "promote", anonymous_session_id |-> Null, resp |-> "pending"]
    ELSE [kind |-> "register", anonymous_session_id |-> Null, resp |-> "pending"]

\* the branch of register that picks the endpoint
RegisterCall ==
    LET sessionId == getAnonymousSessionId
    IN  IF sessionId # Null /\ state.anonymousMessageCount > 0
        THEN [kind |-> "promote", anonymous_session_id |-> sessionId, resp |-> "pending"]
        ELSE [kind |-> "register", anonymous_session_id |-> Null, resp |-> "pending"]

\* a faulty login that drops the stored anonymous count before the call
LoginStartClearsCount ==
    /\ ~state.isAuthenticated
    /\ mounted
    /\ authCall.kind = "none"
    /\ authCall' = [kind |-> "login", anonymous_session_id |-> Null, resp |-> "pending"]
    /\ localStorage' = [localStorage EXCEPT !.anonymous_message_count = Null]
    /\ UNCHANGED <<state, chatVars, currentSessionId, limitModalOpen,
                   serverVars, nSends, anonSends, promoted, sessionCalls, retrieval, listing, tabB, sessionsQuery>>

\* login(data) up to the await; the Sign In button shows when not authenticated
LoginStart ==
    /\ ~state.isAuthenticated
    /\ mounted
    /\ authCall.kind = "none"
    /\ authCall' = [kind |-> "login", anonymous_session_id |-> Null, resp |-> "pending"]
    /\ UNCHANGED <<state, localStorage, chatVars, currentSessionId, limitModalOpen,
                   serverVars, nSends, anonSends, promoted, sessionCalls, retrieval, listing, tabB, sessionsQuery>>

\* register(data) up to the await
RegisterStart ==
    /\ ~state.isAuthenticated
    /\ mounted
    /\ authCall.kind = "none"
    /\ authCall' = RegisterCall
    /\ UNCHANGED <<state, localStorage, chatVars, currentSessionId, limitModalOpen,
                   serverVars, nSends, anonSends, promoted, sessionCalls, retrieval, listing, tabB, sessionsQuery>>

\* the state both login and register set once the call has resolved
AuthenticatedState ==
    [user |-> UserId, isAuthenticated |-> TRUE, isAnonymous |-> FALSE,
     anonymousMessageCount |-> 0, loading |-> FALSE]

\* what register removes from localStorage after a resolved call
RegisterCleanup(ls) ==
    [ls EXCEPT !.anonymous_message_count = Null, !.eloquent_session_id = Null]

\* a faulty catch block: the anonymous data is cleared although the call failed
AuthRejectedClearsCount(st, ls) ==
    <<[st EXCEPT !.anonymousMessageCount = 0], RegisterCleanup(ls)>>

\* what the catch block of login / register does to the client: nothing
AuthRejected(st, ls) == <<st, ls>>

\* the continuation of login / register once the response is in
\* (ApiClient stores the token, AuthContext sets the state)
AuthSettle ==
    /\ authCall.resp \in {"ok", "fail"}
    /\ mounted
    /\ IF authCall.resp = "ok"
       THEN /\ state' = AuthenticatedState
            /\ localStorage' =
                 IF authCall.kind = "login"
                 THEN [localStorage EXCEPT !.access_token = Jwt,
                                           !.anonymous_message_count = Null]
                 ELSE RegisterCleanup([localStorage EXCEPT !.access_token = Jwt])
            /\ promoted' = (promoted \/ authCall.kind = "promote")
            /\ anonSends' = IF authCall.kind = "promote" THEN 0 ELSE anonSends
       ELSE /\ state' = AuthRejected(state, localStorage)[1]
            /\ localStorage' = AuthRejected(state, localStorage)[2]
            /\ UNCHANGED <<promoted, anonSends>>
    /\ authCall' = NoCall
    /\ UNCHANGED <<chatVars, currentSessionId, limitModalOpen, serverVars,
                   nSends, sessionCalls, retrieval, listing, tabB, sessionsQuery>>

\* logout(); the Sign Out entry shows when authenticated
Logout ==
    /\ state.isAuthenticated
    /\ localStorage' = [localStorage EXCEPT !.access_token = Null]
    /\ state' = [user |-> Null, isAuthenticated |-> FALSE, isAnonymous |-> TRUE,
                 anonymousMessageCount |-> StoredCount(localStorage),
                 loading |-> FALSE]
    /\ UNCHANGED <<authCall, chatVars, currentSessionId, limitModalOpen, serverVars,
                   nSends, anonSends, promoted, sessionCalls, retrieval, listing, tabB, sessionsQuery>>

\* incrementMessageCount(): the new AuthState and localStorage
incrementMessageCount(st, ls) ==
    IF st.isAnonymous
    THEN LET newCount == st.anonymousMessageCount + 1
         IN  <<[st EXCEPT !.anonymousMessageCount = newCount],
               [ls EXCEPT !.anonymous_message_count = toString(newCount)]>>
    ELSE <<st, ls>>


\* ----------------------------------------------------------------- backend
\* the text of one SSE frame line, without its newline
FrameLine(f) ==
    CASE f \in ObjIds -> <<PREFIX, "{", f, "}">>
      [] f = "bad" -> <<PREFIX, "{", "oops">>
      [] f = "ping" -> <<": ping">>
      [] OTHER -> <<>>

\* the response body: one line per frame, then the end marker line
RECURSIVE FramesText(_)
FramesText(frames) ==
    IF frames = <<>> THEN <<>>
    ELSE FrameLine(Head(frames)) \o <<NL>> \o FramesText(Tail(frames))

BodyText(frames, withDone) ==
    FramesText(frames) \o (IF withDone THEN <<PREFIX>> \o DoneMarker \o <<NL>> ELSE <<>>)

\* every way the transport hands a text over in at most k non-empty reads
RECURSIVE Chunkings(_, _)
Chunkings(text, k) ==
    IF text = <<>> THEN {<<>>}
    ELSE IF k <= 1 THEN {<<text>>}
    ELSE {<<text>>} \cup
         UNION { { <<SubSeq(text, 1, i)>> \o r :
                     r \in Chunkings(SubSeq(text, i + 1, Len(text)), k - 1) } :
                 i \in 1..(Len(text) - 1) }

\* the content deltas among the frames, concatenated
RECURSIVE ContentOf(_)
ContentOf(frames) ==
    IF frames = <<>> THEN <<>>
    ELSE (IF Head(frames) \in ObjIds /\ ObjType(Head(frames)) = "content"
          THEN ObjData(Head(frames)) ELSE <<>>) \o ContentOf(Tail(frames))

\* the citations among the frames
RECURSIVE SourcesOf(_)
SourcesOf(frames) ==
    IF frames = <<>> THEN <<>>
    ELSE (IF Head(frames) \in ObjIds /\ ObjType(Head(frames)) = "sources"
          THEN ObjSources(Head(frames)) ELSE <<>>) \o SourcesOf(Tail(frames))

\* a faulty backend: the partial answer is logged though the stream broke off
PersistedPartial(frames, done, id) ==
    <<[role |-> "user", content |-> <<"q">>, req |-> id, sources |-> <<>>]>> \o
    (IF ContentOf(frames) # <<>>
     THEN <<[role |-> "assistant", content |-> ContentOf(frames), req |-> id,
             sources |-> SourcesOf(frames)]>>
     ELSE <<>>)

\* what the backend appends to the session's log for one request: the user
\* message before generation, the assistant message once the terminal event
\* (the end marker) has been emitted after an answer
Persisted(frames, done, id) ==
    <<[role |-> "user", content |-> <<"q">>, req |-> id, sources |-> <<>>]>> \o
    (IF done /\ ContentOf(frames) # <<>>
     THEN <<[role |-> "assistant", content |-> ContentOf(frames), req |-> id,
             sources |-> SourcesOf(frames)]>>
     ELSE <<>>)

\* the responses the backend gives in Spec, each read in one chunk: an answer
\* with citations, the session id and the end marker; and a response without
\* content whose body ends without the marker
AppWires ==
    { [frames |-> <<"cA", "src", "meta">>, done |-> TRUE, trail |-> <<>>,
       chunks |-> <<BodyText(<<"cA", "src", "meta">>, TRUE)>>],
      [frames |-> <<"meta">>, done |-> FALSE, trail |-> <<>>,
       chunks |-> <<BodyText(<<"meta">>, FALSE)>>] }

\* answers whose last frame is the metadata sentinel, in the nested form
\* {type: metadata, data: {session_id}} and in the flat form
\* {type: metadata, session_id}, with and without the end marker
MetaWires ==
    UNION { { [frames |-> <<"cA", "src", m>>, done |-> d, trail |-> <<>>,
               chunks |-> <<BodyText(<<"cA", "src", m>>, d)>>] : m \in {"metaN", "meta"} } :
            d \in BOOLEAN }

\* the responses of SpecStream: any frames, any division into reads
StreamFrameKinds == {"cA", "cB", "src", "meta", "bad"}
FrameSeqs(maxFrames) ==
    UNION { [1..n -> StreamFrameKinds] : n \in 0..maxFrames }
StreamWires(maxFrames, maxChunks) ==
    UNION { UNION { { [frames |-> f, done |-> d, trail |-> <<>>, chunks |-> c] :
                        c \in Chunkings(BodyText(f, d), maxChunks) } : d \in BOOLEAN } :
            f \in FrameSeqs(maxFrames) }

\* responses in which the body goes on after the end marker line: an answer
\* "a" or nothing before the marker, a content frame "b" after it, in any
\* division into reads
TrailWires(maxChunks) ==
    UNION { { [frames |-> f, done |-> TRUE, trail |-> <<"cB">>, chunks |-> c] :
                c \in Chunkings(BodyText(f, TRUE) \o FramesText(<<"cB">>), maxChunks) } :
            f \in {<<>>, <<"cA">>, <<"cA", "src">>} }

\* who the backend takes the caller of a chat request to be
Caller(bearer) == IF bearer # Null THEN UserId ELSE AnonToken

\* a store that hands out any session that exists, whoever owns it
GetOrCreateAnyOwner(sessionId, caller) ==
    IF sessionId # Undefined
    THEN IF owner[sessionId] \notin {"none", "deleted"} THEN sessionId ELSE Null
    ELSE IF \E s \in SessionIds : owner[s] = "none"
         THEN SessionOrder[CHOOSE i \in 1..Len(SessionOrder) :
                  /\ owner[SessionOrder[i]] = "none"
                  /\ \A j \in 1..(i - 1) : owner[SessionOrder[j]] # "none"]
         ELSE Null

\* get_or_create(session_id?, owner): the session the request runs in, or
\* Null when the session is another owner's or no id is left to hand out
GetOrCreate(sessionId, caller) ==
    IF sessionId # Undefined
    THEN IF owner[sessionId] = caller THEN sessionId ELSE Null
    ELSE IF \E s \in SessionIds : owner[s] = "none"
         THEN SessionOrder[CHOOSE i \in 1..Len(SessionOrder) :
                  /\ owner[SessionOrder[i]] = "none"
                  /\ \A j \in 1..(i - 1) : owner[SessionOrder[j]] # "none"]
         ELSE Null


\* the backend handles the auth call in flight; promote re-parents every
\* session of the anonymous identity named in the request, in one step
ServerAuth ==
    /\ authCall.resp = "pending"
    /\ \/ /\ authCall' = [authCall EXCEPT !.resp = "ok"]
          /\ owner' = IF authCall.kind = "promote"
                      THEN [s \in SessionIds |->
                              IF owner[s] = authCall.anonymous_session_id
                              THEN UserId ELSE owner[s]]
                      ELSE owner
       \/ /\ authCall' = [authCall EXCEPT !.resp = "fail"]
          /\ owner' = owner
    /\ UNCHANGED <<state, localStorage, chatVars, currentSessionId, limitModalOpen,
                   log, nSends, anonSends, promoted, sessionCalls, retrieval, listing, tabB, sessionsQuery>>

\* ------------------------------------------------------------------ useChat
Question == <<"q">>

\* what the user may have typed into the textarea when the form is submitted
Typed == {<<>>, <<" ">>, <<" ", " ">>, <<"q">>, <<" ", "q">>, <<"q", " ">>, <<" ", "q", " ">>}

\* String.prototype.trim on a text of spaces and letters
RECURSIVE trim(_)
trim(message) ==
    IF message = <<>> THEN <<>>
    ELSE IF Head(message) = " " THEN trim(Tail(message))
    ELSE IF message[Len(message)] = " " THEN trim(SubSeq(message, 1, Len(message) - 1))
    ELSE message
ApologyGenerating == <<"I apologize, but I encountered an error generating a response.">>
ApologyError == <<"I apologize, but I encountered an error. Please try again.">>

\* mutationFn up to `await fetch`: the user message is shown, the request leaves
StartSend(maxSends, content) ==
    /\ nSends < maxSends
    /\ nSends' = nSends + 1
    /\ messages' = Append(messages, [role |-> "user", content |-> content,
                                     req |-> nSends + 1])
    /\ isStreaming' = TRUE
    /\ streamingContent' = <<>>
    /\ send' = [phase |-> "fetch", id |-> nSends + 1, sessionId |-> currentSessionId,
                bearer |-> localStorage.access_token,
                fullResponse |-> <<>>, session_id |-> "", sources |-> <<>>,
                done |-> FALSE, locked |-> FALSE]
    /\ net' = <<>>
    /\ emitted' = NoResponse
    /\ UNCHANGED <<sources, limitModalOpen>>

\* ChatPage.handleSendMessage
handleSendMessage(maxSends, content) ==
    IF ~canSendMessage
    THEN /\ limitModalOpen' = TRUE
         /\ UNCHANGED <<messages, sources, streamingContent, isStreaming, send, net,
                        emitted, nSends>>
    ELSE StartSend(maxSends, content)

\* a ChatInput whose handleSubmit calls onSend without looking at the message
\* or at loading
ChatInputSubmitUnguarded(maxSends) ==
    /\ canSendMessage
    /\ mounted
    /\ \E message \in Typed : handleSendMessage(maxSends, trim(message))
    /\ UNCHANGED <<authVars, currentSessionId, serverVars,
                   anonSends, promoted, sessionCalls, retrieval, listing, tabB, sessionsQuery>>

\* ChatInput.handleSubmit: onSend(message.trim()) when the trimmed message is
\* not empty and the input is neither disabled nor loading
ChatInputSubmit(maxSends) ==
    /\ canSendMessage
    /\ mounted
    /\ ~isLoading
    /\ \E message \in Typed :
         /\ trim(message) # <<>>
         /\ handleSendMessage(maxSends, trim(message))
    /\ UNCHANGED <<authVars, currentSessionId, serverVars,
                   anonSends, promoted, sessionCalls, retrieval, listing, tabB, sessionsQuery>>

\* a click on one of the suggested questions of the empty chat
SuggestedQuestionClick(maxSends) ==
    /\ messages = <<>>
    /\ ~isLoading
    /\ handleSendMessage(maxSends, Question)
    /\ UNCHANGED <<authVars, currentSessionId, serverVars,
                   anonSends, promoted, sessionCalls, retrieval, listing, tabB, sessionsQuery>>

\* onError of sendMessageMutation
onError ==
    /\ messages' = Append(messages, [role |-> "assistant", content |-> ApologyError,
                                     req |-> send.id])
    /\ streamingContent' = <<>>
    /\ isStreaming' = FALSE
    /\ send' = [send EXCEPT !.phase = "error", !.locked = FALSE]
    /\ net' = <<>>
    /\ UNCHANGED <<sources, emitted, state, localStorage, currentSessionId, anonSends>>

\* what onMessageSent does to AuthState and localStorage
onMessageSent(st, ls) == incrementMessageCount(st, ls)

\* an onSuccess that shows the received content as it is, empty or not
onSuccessNoFallback(acc, done) ==
    LET data == [content |-> acc.fullResponse,
                 sessionId |-> IF acc.session_id # "" THEN acc.session_id ELSE send.sessionId,
                 sources |-> acc.sources]
        assistantMessage ==
            [role |-> "assistant",
             content |-> data.content,
             req |-> send.id]
        newMessages == Append(messages, assistantMessage)
        sent == onMessageSent(state, localStorage)
    IN  /\ messages' = newMessages
        /\ sources' = IF data.sources # <<>>
                      THEN ((Len(newMessages) - 1) :> data.sources) @@ sources
                      ELSE sources
        /\ streamingContent' = <<>>
        /\ isStreaming' = FALSE
        /\ currentSessionId' = IF data.sessionId # Undefined THEN data.sessionId
                               ELSE currentSessionId
        /\ state' = sent[1]
        /\ localStorage' = sent[2]
        /\ send' = [send EXCEPT !.phase = "success", !.fullResponse = acc.fullResponse,
                                !.session_id = acc.session_id, !.sources = acc.sources,
                                !.done = done, !.locked = FALSE]
        /\ net' = <<>>
        /\ anonSends' = IF send.bearer = Null THEN anonSends + 1 ELSE anonSends
        /\ UNCHANGED emitted

\* mutationFn's return and onSuccess of sendMessageMutation; acc holds
\* fullResponse and metadata as the loop left them, done tells whether the
\* generator returned on the end marker
onSuccess(acc, done) ==
    LET data == [content |-> acc.fullResponse,
                 sessionId |-> IF acc.session_id # "" THEN acc.session_id ELSE send.sessionId,
                 sources |-> acc.sources]
        assistantMessage ==
            [role |-> "assistant",
             content |-> IF data.content # <<>> THEN data.content ELSE ApologyGenerating,
             req |-> send.id]
        newMessages == Append(messages, assistantMessage)
        sent == onMessageSent(state, localStorage)
    IN  /\ messages' = newMessages
        /\ sources' = IF data.sources # <<>>
                      THEN ((Len(newMessages) - 1) :> data.sources) @@ sources
                      ELSE sources
        /\ streamingContent' = <<>>
        /\ isStreaming' = FALSE
        /\ currentSessionId' = IF data.sessionId # Undefined THEN data.sessionId
                               ELSE currentSessionId
        /\ state' = sent[1]
        /\ localStorage' = sent[2]
        /\ send' = [send EXCEPT !.phase = "success", !.fullResponse = acc.fullResponse,
                                !.session_id = acc.session_id, !.sources = acc.sources,
                                !.done = done, !.locked = FALSE]
        /\ net' = <<>>
        /\ anonSends' = IF send.bearer = Null THEN anonSends + 1 ELSE anonSends
        /\ UNCHANGED emitted

\* the backend answers the chat request: it resolves the session, logs the
\* user message, generates, and logs the assistant message of a full answer
FetchOk(wires) ==
    /\ send.phase = "fetch"
    /\ mounted
    /\ LET sid == GetOrCreate(send.sessionId, Caller(send.bearer))
       IN  /\ sid # Null
           /\ \E w \in wires :
                /\ emitted' = [frames |-> w.frames, session_id |-> sid,
                               chunks |-> w.chunks, done |-> w.done,
                               trail |-> w.trail]
                /\ net' = w.chunks
                /\ log' = [log EXCEPT
                              ![sid] = Stamped(@, Persisted(w.frames, w.done, send.id), 1)]
           /\ owner' = [owner EXCEPT ![sid] = Caller(send.bearer)]
           /\ send' = [send EXCEPT !.phase = "reading", !.locked = TRUE]
    /\ UNCHANGED <<authVars, messages, sources, streamingContent, isStreaming,
                   currentSessionId, limitModalOpen, nSends,
                   anonSends, promoted, sessionCalls, retrieval, listing, tabB, sessionsQuery>>

\* fetch rejects, or the response is not ok: mutationFn throws
FetchFail ==
    /\ send.phase = "fetch"
    /\ mounted
    /\ onError
    /\ UNCHANGED <<authCall, limitModalOpen, serverVars, nSends, promoted, sessionCalls, retrieval, listing, tabB, sessionsQuery>>

\* one reader.read() that returns a chunk, with the line loop and the
\* consumer's loop body run on it; the end marker ends the mutation
ReadChunk ==
    /\ send.phase = "reading"
    /\ mounted
    /\ net # <<>>
    /\ LET r == ProcessChunk(Head(net), emitted.session_id)
           acc == Consume([fullResponse |-> send.fullResponse,
                           session_id |-> send.session_id,
                           sources |-> send.sources], r.items)
       IN  IF r.done
           THEN onSuccess(acc, TRUE)
           ELSE /\ send' = [send EXCEPT !.fullResponse = acc.fullResponse,
                                        !.session_id = acc.session_id,
                                        !.sources = acc.sources]
                /\ streamingContent' = acc.fullResponse
                /\ net' = Tail(net)
                /\ UNCHANGED <<messages, sources, isStreaming, emitted, state,
                               localStorage, currentSessionId, anonSends>>
    /\ UNCHANGED <<authCall, limitModalOpen, serverVars, nSends, promoted, sessionCalls, retrieval, listing, tabB, sessionsQuery>>

\* reader.read() reports done: the body ended without the end marker
ReadEnd ==
    /\ send.phase = "reading"
    /\ mounted
    /\ net = <<>>
    /\ onSuccess([fullResponse |-> send.fullResponse, session_id |-> send.session_id,
                  sources |-> send.sources], FALSE)
    /\ UNCHANGED <<authCall, limitModalOpen, serverVars, nSends, promoted, sessionCalls, retrieval, listing, tabB, sessionsQuery>>

\* reader.read() rejects (the connection broke): finally, rethrow, onError
ReadError ==
    /\ send.phase = "reading"
    /\ mounted
    /\ onError
    /\ UNCHANGED <<authCall, limitModalOpen, serverVars, nSends, promoted, sessionCalls, retrieval, listing, tabB, sessionsQuery>>

\* ------------------------------------------------- sessions of the sidebar
\* useChat.clearMessages
clearMessages ==
    /\ messages' = <<>>
    /\ sources' = NoSources
    /\ streamingContent' = <<>>
    /\ isStreaming' = FALSE

\* ChatPage.handleNewChat: clearMessages and clearCurrentSession; a send in
\* flight goes on
handleNewChat ==
    /\ clearMessages
    /\ currentSessionId' = Undefined

\* a click on New Chat
NewChatClick ==
    /\ mounted
    /\ handleNewChat
    /\ UNCHANGED <<authVars, send, net, emitted, limitModalOpen, serverVars, nSends,
                   anonSends, promoted, sessionCalls, retrieval, listing, tabB, sessionsQuery>>

\* old.filter(pred) of a list of sessions
RECURSIVE Without(_, _)
Without(list, gone) ==
    IF list = <<>> THEN <<>>
    ELSE (IF Head(list) \in gone THEN <<>> ELSE <<Head(list)>>) \o Without(Tail(list), gone)

\* list_sessions(owner): the caller's sessions, latest first
ServerSessions(caller) ==
    LET n == Len(SessionOrder)
    IN  Without([i \in 1..n |-> SessionOrder[n + 1 - i]],
                {s \in SessionIds : owner[s] # caller})

\* the sessions the sidebar shows: the cached list
Listed(s) == \E i \in 1..Len(sessionsQuery.data) : sessionsQuery.data[i] = s

DeletesInFlight == {s \in SessionIds : deleteCall[s].phase # "idle"}

\* the ['sessions'] query fetches (mount, invalidation, focus) and the
\* backend's list replaces the cached one
SessionsFetch ==
    /\ mounted
    /\ LET list == ServerSessions(Caller(localStorage.access_token))
       IN  /\ list # sessionsQuery.data
           /\ sessionsQuery' =
                IF DeletesInFlight = {}
                THEN [data |-> list, expected |-> list, clean |-> TRUE]
                ELSE [sessionsQuery EXCEPT !.data = list, !.clean = FALSE]
    /\ UNCHANGED <<authVars, chatVars, currentSessionId, limitModalOpen, serverVars,
                   nSends, anonSends, promoted, sessionCalls, retrieval, listing, tabB>>

\* a click on a session of the sidebar: handleSelectSession up to the await
SelectStart ==
    /\ mounted
    /\ selectCall.phase = "idle"
    /\ \E s \in SessionIds :
         /\ Listed(s)
         /\ selectCall' = [phase |-> "pending", sessionId |-> s, messages |-> <<>>]
    /\ UNCHANGED <<authVars, chatVars, currentSessionId, limitModalOpen, serverVars,
                   nSends, anonSends, promoted, deleteCall, retrieval, listing, tabB, sessionsQuery>>

\* list_messages(session_id, owner) at the backend: the log of the caller's
\* session, Forbidden for another owner's
ServerMessages ==
    /\ selectCall.phase = "pending"
    /\ selectCall' =
         IF owner[selectCall.sessionId] = Caller(localStorage.access_token)
         THEN [selectCall EXCEPT !.phase = "ok", !.messages = log[selectCall.sessionId]]
         ELSE [selectCall EXCEPT !.phase = "fail"]
    /\ UNCHANGED <<authVars, chatVars, currentSessionId, limitModalOpen, serverVars,
                   nSends, anonSends, promoted, deleteCall, retrieval, listing, tabB, sessionsQuery>>

\* useChat.setMessagesFromHistory: the list and the citations by position
HistoryMessages(h) ==
    [i \in 1..Len(h) |-> [role |-> h[i].role, content |-> h[i].content, req |-> h[i].req]]

\* the citations keyed by the position counted from one
HistorySourcesFromOne(h) ==
    [i \in {k \in 1..Len(h) : h[k].sources # <<>>} |-> h[i].sources]

HistorySources(h) ==
    [i \in {j - 1 : j \in {k \in 1..Len(h) : h[k].sources # <<>>}} |-> h[i + 1].sources]

\* the select call settles: onSuccess sets the current session and
\* handleSelectSession shows the history; a rejected call is only logged
SelectSettle ==
    /\ selectCall.phase \in {"ok", "fail"}
    /\ mounted
    /\ IF selectCall.phase = "ok"
       THEN /\ currentSessionId' = selectCall.sessionId
            /\ messages' = HistoryMessages(selectCall.messages)
            /\ sources' = HistorySources(selectCall.messages)
       ELSE UNCHANGED <<currentSessionId, messages, sources>>
    /\ selectCall' = NoSelect
    /\ UNCHANGED <<authVars, streamingContent, isStreaming, send, net, emitted,
                   limitModalOpen, serverVars, nSends, anonSends, promoted, deleteCall, retrieval, listing, tabB, sessionsQuery>>

\* a confirmed click on the delete button of a session: handleDeleteSession
\* up to the request, with onMutate (snapshot and optimistic removal); the
\* handlers keep the currentSessionId of this render. At most maxDeletes
\* deletes are in flight.
DeleteStart(maxDeletes) ==
    /\ mounted
    /\ Cardinality(DeletesInFlight) < maxDeletes
    /\ \E s \in SessionIds :
         /\ Listed(s)
         /\ deleteCall[s].phase = "idle"
         /\ deleteCall' = [deleteCall EXCEPT
                             ![s] = [phase |-> "pending", current |-> currentSessionId,
                                     wasGone |-> FALSE,
                                     previousSessions |-> sessionsQuery.data]]
         /\ sessionsQuery' =
              [data |-> Without(sessionsQuery.data, {s}),
               expected |-> IF DeletesInFlight = {} THEN sessionsQuery.data
                            ELSE sessionsQuery.expected,
               clean |-> IF DeletesInFlight = {} THEN TRUE ELSE sessionsQuery.clean]
    /\ UNCHANGED <<authVars, chatVars, currentSessionId, limitModalOpen, serverVars,
                   nSends, anonSends, promoted, selectCall, retrieval, listing, tabB>>

\* a store where deleting a session that is gone is an error
DeleteStrict(s, caller) ==
    IF owner[s] = caller
    THEN [ok |-> TRUE, owner |-> [owner EXCEPT ![s] = "deleted"],
          log |-> [log EXCEPT ![s] = <<>>]]
    ELSE [ok |-> FALSE, owner |-> owner, log |-> log]

\* delete(session_id, owner): the owner's session goes with its messages, a
\* deleted or nonexistent one is a no-op success, another owner's is Forbidden
Delete(s, caller) ==
    IF owner[s] = caller
    THEN [ok |-> TRUE, owner |-> [owner EXCEPT ![s] = "deleted"],
          log |-> [log EXCEPT ![s] = <<>>]]
    ELSE [ok |-> owner[s] \in {"deleted", "none"}, owner |-> owner, log |-> log]

\* the backend handles a delete call in flight; wasGone records that the
\* session was gone before the call
ServerDelete ==
    /\ \E s \in SessionIds :
         /\ deleteCall[s].phase = "pending"
         /\ LET r == Delete(s, Caller(localStorage.access_token))
            IN  /\ owner' = r.owner
                /\ log' = r.log
                /\ deleteCall' = [deleteCall EXCEPT
                                    ![s].phase = IF r.ok THEN "ok" ELSE "fail",
                                    ![s].wasGone = owner[s] = "deleted"]
    /\ UNCHANGED <<authVars, chatVars, currentSessionId, limitModalOpen,
                   nSends, anonSends, promoted, selectCall, retrieval, listing, tabB,
                   sessionsQuery>>

\* a delete request or its response is lost on the way: the call rejects
DeleteFail ==
    /\ \E s \in SessionIds :
         /\ deleteCall[s].phase \in {"pending", "ok"}
         /\ deleteCall' = [deleteCall EXCEPT ![s].phase = "fail"]
    /\ UNCHANGED <<authVars, chatVars, currentSessionId, limitModalOpen, serverVars,
                   nSends, anonSends, promoted, selectCall, retrieval, listing, tabB,
                   sessionsQuery>>

\* onError of deleteSessionMutation: the snapshot is put back
Rollback(previousSessions) == previousSessions

\* a settle that starts a new chat after every successful delete, whichever
\* session was current
DeleteSettleAlwaysClears ==
    /\ mounted
    /\ \E s \in SessionIds :
         /\ deleteCall[s].phase \in {"ok", "fail"}
         /\ IF deleteCall[s].phase = "ok"
            THEN handleNewChat
            ELSE UNCHANGED <<messages, sources, streamingContent, isStreaming,
                             currentSessionId>>
         /\ LET ok == deleteCall[s].phase = "ok"
                data == IF ok THEN sessionsQuery.data
                        ELSE Rollback(deleteCall[s].previousSessions)
            IN  sessionsQuery' =
                  IF DeletesInFlight = {s} /\ ~sessionsQuery.clean
                  THEN [data |-> data, expected |-> data, clean |-> TRUE]
                  ELSE [data |-> data,
                        expected |-> IF ok THEN Without(sessionsQuery.expected, {s})
                                     ELSE sessionsQuery.expected,
                        clean |-> sessionsQuery.clean]
         /\ deleteCall' = [deleteCall EXCEPT ![s] = NoDelete]
    /\ UNCHANGED <<authVars, send, net, emitted, limitModalOpen, serverVars, nSends,
                   anonSends, promoted, selectCall, retrieval, listing, tabB>>

\* a delete call settles: onError rolls the cache back; after a success
\* deleteSession and handleDeleteSession compare the session with the
\* currentSessionId of the render of the click
DeleteSettle ==
    /\ mounted
    /\ \E s \in SessionIds :
         /\ deleteCall[s].phase \in {"ok", "fail"}
         /\ IF deleteCall[s].phase = "ok" /\ deleteCall[s].current = s
            THEN handleNewChat
            ELSE UNCHANGED <<messages, sources, streamingContent, isStreaming,
                             currentSessionId>>
         /\ LET ok == deleteCall[s].phase = "ok"
                data == IF ok THEN sessionsQuery.data
                        ELSE Rollback(deleteCall[s].previousSessions)
            IN  sessionsQuery' =
                  IF DeletesInFlight = {s} /\ ~sessionsQuery.clean
                  THEN [data |-> data, expected |-> data, clean |-> TRUE]
                  ELSE [data |-> data,
                        expected |-> IF ok THEN Without(sessionsQuery.expected, {s})
                                     ELSE sessionsQuery.expected,
                        clean |-> sessionsQuery.clean]
         /\ deleteCall' = [deleteCall EXCEPT ![s] = NoDelete]
    /\ UNCHANGED <<authVars, send, net, emitted, limitModalOpen, serverVars, nSends,
                   anonSends, promoted, selectCall, retrieval, listing, tabB>>

\* ----------------------------------------------------------- a second tab
\* The same page in a second tab of the browser of an anonymous client: its
\* own AuthState and session selection, the same localStorage, the same
\* anonymous identity at the backend.

\* the second tab is opened: the mount effect loads the stored count
TabOpen ==
    /\ tabB.phase = "closed"
    /\ localStorage.access_token = Null
    /\ tabB' = [NoTab EXCEPT !.phase = "idle",
                             !.anonymousMessageCount = StoredCount(localStorage)]
    /\ UNCHANGED <<authVars, chatVars, currentSessionId, limitModalOpen, serverVars,
                   nSends, anonSends, promoted, sessionCalls, retrieval, listing, sessionsQuery>>

\* a session of the sidebar is selected in the second tab
TabSelect ==
    /\ tabB.phase = "idle"
    /\ \E s \in SessionIds :
         /\ owner[s] = AnonToken
         /\ s # tabB.currentSessionId
         /\ tabB' = [tabB EXCEPT !.currentSessionId = s]
    /\ UNCHANGED <<authVars, chatVars, currentSessionId, limitModalOpen, serverVars,
                   nSends, anonSends, promoted, sessionCalls, retrieval, listing, sessionsQuery>>

\* handleSendMessage in the second tab: canSendMessage of its AuthState
TabSendStart(maxSends) ==
    /\ tabB.phase = "idle"
    /\ tabB.sends < maxSends
    /\ tabB.anonymousMessageCount < ANONYMOUS_MESSAGE_LIMIT
    /\ tabB' = [tabB EXCEPT !.phase = "sending", !.sends = @ + 1]
    /\ UNCHANGED <<authVars, chatVars, currentSessionId, limitModalOpen, serverVars,
                   nSends, anonSends, promoted, sessionCalls, retrieval, listing, sessionsQuery>>

\* the send of the second tab is answered in full: the backend logs the
\* exchange, onSuccess takes the session and incrementMessageCount writes the
\* tab's count plus one
TabSendDone ==
    /\ tabB.phase = "sending"
    /\ LET sid == GetOrCreate(tabB.currentSessionId, AnonToken)
           newCount == tabB.anonymousMessageCount + 1
       IN  /\ sid # Null
           /\ owner' = [owner EXCEPT ![sid] = AnonToken]
           /\ log' = [log EXCEPT
                        ![sid] = Stamped(@, Persisted(<<"cA", "src", "meta">>, TRUE, 0), 1)]
           /\ tabB' = [tabB EXCEPT !.phase = "idle", !.currentSessionId = sid,
                                   !.anonymousMessageCount = newCount]
           /\ localStorage' = [localStorage EXCEPT
                                 !.anonymous_message_count = toString(newCount)]
    /\ anonSends' = anonSends + 1
    /\ UNCHANGED <<state, authCall, chatVars, currentSessionId, limitModalOpen,
                   nSends, promoted, sessionCalls, retrieval, listing, sessionsQuery>>

\* the send of the second tab fails: onError
TabSendFail ==
    /\ tabB.phase = "sending"
    /\ tabB' = [tabB EXCEPT !.phase = "idle"]
    /\ UNCHANGED <<authVars, chatVars, currentSessionId, limitModalOpen, serverVars,
                   nSends, anonSends, promoted, sessionCalls, retrieval, listing, sessionsQuery>>

\* ------------------------------------------------------ paging of messages
\* a store whose page starts at the cursor position itself
ListMessagesFromCursor(s, cursor, limit) ==
    LET l == log[s]
        first == IF cursor = 0 THEN 1 ELSE cursor
        last == IF first + limit - 1 < Len(l) THEN first + limit - 1 ELSE Len(l)
    IN  [messages |-> SubSeq(l, first, last), cursor |-> last,
         has_more |-> last < Len(l), total_count |-> Len(l)]

\* list_messages(session_id, cursor?, limit): the page of the messages after
\* the cursor position, oldest first, with the cursor of its last message
ListMessages(s, cursor, limit) ==
    LET l == log[s]
        last == IF cursor + limit < Len(l) THEN cursor + limit ELSE Len(l)
    IN  [messages |-> SubSeq(l, cursor + 1, last), cursor |-> last,
         has_more |-> last < Len(l), total_count |-> Len(l)]

\* a reader starts to page through a session, limit messages a page
ListStart(maxLimit) ==
    /\ listing.session = Undefined
    /\ \E s \in SessionIds, limit \in 1..maxLimit :
         /\ owner[s] = AnonToken
         /\ listing' = [NoListing EXCEPT !.session = s, !.limit = limit]
    /\ UNCHANGED <<authVars, chatVars, currentSessionId, limitModalOpen, serverVars,
                   nSends, anonSends, promoted, sessionCalls, retrieval, tabB, sessionsQuery>>

\* the reader asks for the next page with the cursor of the last one
ListNext ==
    /\ listing.session # Undefined
    /\ listing.has_more
    /\ LET page == ListMessages(listing.session, listing.cursor, listing.limit)
       IN  listing' = [listing EXCEPT !.cursor = page.cursor,
                                      !.seen = @ \o page.messages,
                                      !.has_more = page.has_more,
                                      !.totals = Append(@, page.total_count)]
    /\ UNCHANGED <<authVars, chatVars, currentSessionId, limitModalOpen, serverVars,
                   nSends, anonSends, promoted, sessionCalls, retrieval, tabB, sessionsQuery>>

\* another request appends a message to a session; the store's clock has
\* advanced by one or two ticks since the session's last message
StoreAppend(maxLog) ==
    /\ \E s \in SessionIds, role \in {"user", "assistant"}, tick \in {1, 2} :
         /\ owner[s] = AnonToken
         /\ Len(log[s]) < maxLog
         /\ log' = [log EXCEPT
                      ![s] = Stamped(@, <<[role |-> role, content |-> <<"q">>, req |-> 0,
                                          sources |-> <<>>]>>, tick)]
    /\ UNCHANGED <<authVars, chatVars, currentSessionId, limitModalOpen, owner,
                   nSends, anonSends, promoted, sessionCalls, retrieval, listing, tabB, sessionsQuery>>

\* ---------------------------------------------------------------- Retriever
\* scores in hundredths; the vector index holds at most MaxCandidates
\* passages near a query
Scores == {60, 74, 75, 90}

CandidateLists(maxCandidates) ==
    UNION { [1..n -> Scores] : n \in 0..maxCandidates }

\* a match of the index: the passage (its position in the index) and its score
Matches(scoreList) == [i \in 1..Len(scoreList) |-> [id |-> i, score |-> scoreList[i]]]

\* insertion of a match into a list sorted by descending score
RECURSIVE InsertDesc(_, _)
InsertDesc(m, sorted) ==
    IF sorted = <<>> THEN <<m>>
    ELSE IF m.score > Head(sorted).score THEN <<m>> \o sorted
    ELSE <<Head(sorted)>> \o InsertDesc(m, Tail(sorted))

RECURSIVE SortDesc(_)
SortDesc(ms) ==
    IF ms = <<>> THEN <<>> ELSE InsertDesc(Head(ms), SortDesc(Tail(ms)))

Truncate(ms, k) == SubSeq(ms, 1, IF Len(ms) < k THEN Len(ms) ELSE k)

RECURSIVE FilterScore(_, _)
FilterScore(ms, threshold) ==
    IF ms = <<>> THEN <<>>
    ELSE (IF Head(ms).score >= threshold THEN <<Head(ms)>> ELSE <<>>)
         \o FilterScore(Tail(ms), threshold)

\* a retriever that returns the k nearest passages whatever their score
RetrieveUnfiltered(ms, k, threshold) == Truncate(SortDesc(ms), k)

\* retrieve(query_text, k, similarity_threshold): the matches sorted by
\* descending score, truncated to k, filtered to score >= threshold
Retrieve(ms, k, threshold) == FilterScore(Truncate(SortDesc(ms), k), threshold)

\* the citations of an answer: one per match
CitationsOf(ms) == [i \in 1..Len(ms) |-> [source_id |-> ms[i].id,
                                         relevance_score |-> ms[i].score]]

\* a question arrives and the index holds these passages near it
IndexQuery(maxCandidates) ==
    /\ retrieval.phase = "idle"
    /\ \E c \in CandidateLists(maxCandidates) :
         retrieval' = [NoRetrieval EXCEPT !.phase = "queried", !.candidates = Matches(c)]
    /\ UNCHANGED <<authVars, chatVars, currentSessionId, limitModalOpen, serverVars,
                   nSends, anonSends, promoted, sessionCalls, listing, tabB, sessionsQuery>>

\* the retriever answers with the deployment's k and threshold, and the
\* answer is produced with the citations of the matches
RetrieveStep ==
    /\ retrieval.phase = "queried"
    /\ LET ms == Retrieve(retrieval.candidates, PINECONE_TOP_K,
                          PINECONE_SIMILARITY_THRESHOLD)
       IN  retrieval' = [retrieval EXCEPT !.phase = "answered", !.matches = ms,
                                          !.citations = CitationsOf(ms)]
    /\ UNCHANGED <<authVars, chatVars, currentSessionId, limitModalOpen, serverVars,
                   nSends, anonSends, promoted, sessionCalls, listing, tabB, sessionsQuery>>

\* ----------------------------------------------------------------- ChatPage
\* the page is loaded again: React state starts over, requests in flight are
\* dropped, localStorage and the backend stay
Reload ==
    /\ state' = InitialAuthState
    /\ authCall' = NoCall
    /\ messages' = <<>>
    /\ sources' = NoSources
    /\ streamingContent' = <<>>
    /\ isStreaming' = FALSE
    /\ send' = IdleSend
    /\ net' = <<>>
    /\ emitted' = NoResponse
    /\ currentSessionId' = Undefined
    /\ limitModalOpen' = FALSE
    /\ selectCall' = NoSelect
    /\ deleteCall' = NoDeletes
    /\ sessionsQuery' = NoQuery
    /\ UNCHANGED <<localStorage, serverVars, nSends, anonSends, promoted, retrieval,
                   listing, tabB>>

\* ------------------------------------------------------------ specifications
Next ==
    \/ Mount
    \/ LoginStart
    \/ RegisterStart
    \/ ServerAuth
    \/ AuthSettle
    \/ Logout
    \/ ChatInputSubmit(MaxSends)
    \/ SuggestedQuestionClick(MaxSends)
    \/ FetchOk(AppWires)
    \/ FetchFail
    \/ ReadChunk
    \/ ReadEnd
    \/ ReadError
    \/ Reload

Spec == Init /\ [][Next]_vars

\* The first streamed exchange of a first visit, started from the empty chat:
\* the backend may emit any frames and the transport may divide the body into
\* reads anywhere.
InitStream == InitWith({0}, {Null})

NextStream ==
    \/ Mount
    \/ SuggestedQuestionClick(MaxSends)
    \/ FetchOk(StreamWires(MaxFrames, MaxChunks))
    \/ FetchFail
    \/ ReadChunk
    \/ ReadEnd
    \/ ReadError

SpecStream == InitStream /\ [][NextStream]_vars

\* The chat of an anonymous client whose response bodies go on after the
\* end marker.
NextDone ==
    \/ Mount
    \/ SuggestedQuestionClick(MaxSends)
    \/ FetchOk(TrailWires(MaxChunks))
    \/ FetchFail
    \/ ReadChunk
    \/ ReadEnd
    \/ ReadError

SpecDone == InitStream /\ [][NextDone]_vars

\* The chat of an anonymous client whose answers end with the metadata
\* sentinel in either form.
InitMeta == InitWith({0, 1}, {Null})

NextMeta ==
    \/ Mount
    \/ ChatInputSubmit(MaxSends)
    \/ SuggestedQuestionClick(MaxSends)
    \/ FetchOk(MetaWires)
    \/ FetchFail
    \/ ReadChunk
    \/ ReadEnd
    \/ ReadError

SpecMeta == InitMeta /\ [][NextMeta]_vars

\* The chat of an anonymous client open in two tabs.
InitTabs == InitWith({0, 1}, {Null})

NextTabs ==
    \/ Mount
    \/ ChatInputSubmit(MaxSends)
    \/ FetchOk(AppWires)
    \/ FetchFail
    \/ ReadChunk
    \/ ReadEnd
    \/ ReadError
    \/ TabOpen
    \/ TabSelect
    \/ TabSendStart(MaxSends)
    \/ TabSendDone
    \/ TabSendFail

SpecTabs == InitTabs /\ [][NextTabs]_vars

\* The sidebar of an anonymous client with three conversations: the cached
\* list, its fetches and concurrent deletes.
InitCache == InitOver({3}, {Null}, 3)

NextCache ==
    \/ Mount
    \/ SessionsFetch
    \/ DeleteStart(MaxDeletes)
    \/ ServerDelete
    \/ DeleteFail
    \/ DeleteSettle

SpecCache == InitCache /\ [][NextCache]_vars

\* A reader pages through a session of the anonymous client while other
\* requests append to it.
InitPaging == InitWith({1}, {Null})

NextPaging ==
    \/ ListStart(MaxLimit)
    \/ ListNext
    \/ StoreAppend(MaxLog)

SpecPaging == InitPaging /\ [][NextPaging]_vars

\* The retriever alone: any passages near the question, then the answer.
InitRetrieval == InitWith({0}, {Null})

NextRetrieval ==
    \/ IndexQuery(MaxCandidates)
    \/ RetrieveStep

SpecRetrieval == InitRetrieval /\ [][NextRetrieval]_vars

\* The chat with its sidebar, for an anonymous client: sends, New Chat, and
\* the selection and deletion of sessions, in any order.
InitSessions == InitWith({1}, {Null})

NextSessions ==
    \/ Mount
    \/ ChatInputSubmit(MaxSessionSends)
    \/ FetchOk(AppWires)
    \/ FetchFail
    \/ ReadChunk
    \/ ReadEnd
    \/ ReadError
    \/ NewChatClick
    \/ SelectStart
    \/ ServerMessages
    \/ SelectSettle
    \/ SessionsFetch
    \/ DeleteStart(1)
    \/ ServerDelete
    \/ DeleteFail
    \/ DeleteSettle

SpecSessions == InitSessions /\ [][NextSessions]_vars

\* The chat with its sidebar without deletions: sends, New Chat and the
\* selection of sessions, in any order.
NextHistory ==
    \/ Mount
    \/ ChatInputSubmit(MaxSessionSends)
    \/ FetchOk(AppWires)
    \/ FetchFail
    \/ ReadChunk
    \/ ReadEnd
    \/ ReadError
    \/ NewChatClick
    \/ SelectStart
    \/ ServerMessages
    \/ SelectSettle
    \/ SessionsFetch

SpecHistory == InitSessions /\ [][NextHistory]_vars

\* The sidebar of an anonymous client with two conversations of earlier
\* visits: selection, New Chat and deletion in any order, with requests and
\* responses of a delete that may be lost.
InitDelete == InitOver({2}, {Null}, 2)

NextDelete ==
    \/ Mount
    \/ NewChatClick
    \/ SelectStart
    \/ ServerMessages
    \/ SelectSettle
    \/ SessionsFetch
    \/ DeleteStart(MaxDeletes)
    \/ ServerDelete
    \/ DeleteFail
    \/ DeleteSettle

SpecDelete == InitDelete /\ [][NextDelete]_vars


\* ------------------------------------------------------------------- claims
\* a step in which the chat request in flight ends, one way or the other
SendSettles == FetchFail \/ ReadChunk \/ ReadEnd \/ ReadError

\* C1: in every reachable state the message count of an anonymous client is
\* at most the limit 3.
C1_AnonymousCountWithinLimit ==
    state.isAnonymous => state.anonymousMessageCount <= ANONYMOUS_MESSAGE_LIMIT

\* C2: from a state in which the client is not authenticated and its count
\* has reached the limit, no step starts a chat request: the attempt is
\* rejected (the limit modal opens) and the request counter, the mutation and
\* the message list stay as they are.
C2_LimitReachedSendRejected ==
    [][ (~state.isAuthenticated /\ state.anonymousMessageCount >= ANONYMOUS_MESSAGE_LIMIT)
        => /\ nSends' = nSends
           /\ (SuggestedQuestionClick(MaxSends) \/ ChatInputSubmit(MaxSends))
                => (limitModalOpen' /\ messages' = messages /\ send' = send
                    /\ isStreaming' = isStreaming) ]_vars

\* C2 witness: an anonymous client at the limit has attempted a send and was
\* shown the limit modal.
C2_Witness ==
    /\ limitModalOpen
    /\ ~state.isAuthenticated
    /\ state.anonymousMessageCount = ANONYMOUS_MESSAGE_LIMIT
    /\ ~isLoading

\* C3: a send whose generation fails (request error, stream error, or a
\* stream that ends without any answer content) leaves the anonymous count,
\* in memory and as stored, unchanged.
C3_FailedSendKeepsCount ==
    [][ (SendSettles /\ isLoading /\ ~(send'.phase \in {"fetch", "reading"})
         /\ (send'.phase = "error" \/ send'.fullResponse = <<>>))
        => /\ state'.anonymousMessageCount = state.anonymousMessageCount
           /\ localStorage'.anonymous_message_count = localStorage.anonymous_message_count ]_vars

\* C4: for an anonymous client whose stored count has been loaded, after N
\* successful sends of the anonymous identity (N <= 3) the count equals N.
C4_CountEqualsSuccessfulSends ==
    (state.isAnonymous /\ mounted /\ ~isLoading /\ anonSends <= ANONYMOUS_MESSAGE_LIMIT)
        => state.anonymousMessageCount = anonSends

\* C5: the step in which the backend accepts a promote leaves no session
\* owned by the client's anonymous token, and every session that token owned
\* is owned by the new identity with its message log intact.
PromoteOk == ServerAuth /\ authCall.kind = "promote" /\ authCall'.resp = "ok"

C5_PromotionAtomic ==
    [][ PromoteOk
        => \A s \in SessionIds :
              /\ owner'[s] # AnonToken
              /\ owner[s] = AnonToken => (owner'[s] = UserId /\ log'[s] = log[s]) ]_vars

\* C5 witness: a promote has been accepted; the anonymous conversation, with
\* its messages, is the new identity's and nothing is left with the token.
C5_Witness ==
    /\ authCall.kind = "promote"
    /\ authCall.resp = "ok"
    /\ \E s \in SessionIds : owner[s] = UserId /\ Len(log[s]) >= 2
    /\ \A s \in SessionIds : owner[s] # AnonToken

\* C6: a promote that fails, at the backend and then in the client's catch
\* block, leaves the ownership and the logs of all sessions, the AuthState
\* (with the anonymous count) and localStorage exactly as they were.
PromoteFails ==
    \/ ServerAuth /\ authCall.kind = "promote" /\ authCall'.resp = "fail"
    \/ AuthSettle /\ authCall.kind = "promote" /\ authCall.resp = "fail"

C6_FailedPromotionChangesNothing ==
    [][ PromoteFails
        => /\ owner' = owner
           /\ log' = log
           /\ state' = state
           /\ localStorage' = localStorage ]_vars

\* C6 witness: the backend has refused a promote; the anonymous token still
\* owns its conversation and the client still holds its count and its token.
C6_Witness ==
    /\ authCall.kind = "promote"
    /\ authCall.resp = "fail"
    /\ \E s \in SessionIds : owner[s] = AnonToken /\ log[s] # <<>>
    /\ state.isAnonymous
    /\ state.anonymousMessageCount > 0
    /\ localStorage.anonymous_message_count = toString(state.anonymousMessageCount)
    /\ localStorage.eloquent_session_id = AnonToken

\* C7: once the promotion has succeeded the client's quota is retired for
\* good: no anonymous count is kept, in memory or stored, and a send is
\* never refused, also after a later logout.
C7_PromotedQuotaRetired ==
    promoted => /\ state.anonymousMessageCount = 0
                /\ localStorage.anonymous_message_count = Null
                /\ (mounted => canSendMessage)

\* C8: when the exchange has completed, the consumer has received the content
\* of every content frame the backend emitted, once each and in emission
\* order, however the body was divided into reads.
C8_ContentDeliveredExactlyOnce ==
    send.phase = "success" => send.fullResponse = ContentOf(emitted.frames)

\* every read ends at the end of a line
LineAligned(chunks) ==
    \A i \in 1..Len(chunks) : chunks[i] # <<>> /\ chunks[i][Len(chunks[i])] = NL

C10_AssistantOnlyAfterTerminalEvent ==
    \A i \in 1..Len(messages) :
        (messages[i].role = "assistant" /\ messages[i].req = send.id)
            => (send.phase = "success" /\ send.done)

\* the request in flight, or the last one, has been answered by the backend
Answered == send.phase \in {"reading", "success", "error"} /\ emitted # NoResponse

\* C11: in the backend's log every assistant message directly follows the
\* user message of its request, and the one of the current request is there
\* only if the backend emitted the end marker, with the whole answer; the
\* user message of an answered request is in the log whatever happens to the
\* stream afterwards.
C11_NoPartialAssistantPersisted ==
    /\ \A s \in SessionIds : \A i \in 1..Len(log[s]) :
          log[s][i].role = "assistant"
             => /\ i > 1
                /\ log[s][i - 1].role = "user"
                /\ log[s][i - 1].req = log[s][i].req
                /\ (Answered /\ log[s][i].req = send.id)
                      => (emitted.done /\ log[s][i].content = ContentOf(emitted.frames))
    /\ Answered
          => \E i \in 1..Len(log[emitted.session_id]) :
                /\ log[emitted.session_id][i].role = "user"
                /\ log[emitted.session_id][i].req = send.id

\* C11 witness: the stream broke off after the backend had emitted content
\* but no end marker; the log of the session ends with the user message.
C11_Witness ==
    /\ send.phase = "error"
    /\ emitted # NoResponse
    /\ ContentOf(emitted.frames) # <<>>
    /\ ~emitted.done
    /\ LET l == log[emitted.session_id]
       IN  l # <<>> /\ l[Len(l)].role = "user" /\ l[Len(l)].req = send.id

\* C14: a delete of a session that an earlier delete has removed succeeds, and
\* it leaves the owners and the logs of the store as the first delete left
\* them; once a session is deleted it stays deleted, with no messages.
C14_DeleteIdempotent ==
    [][/\ \A d \in SessionIds :
            (/\ deleteCall[d].phase = "pending"
             /\ deleteCall'[d].phase \in {"ok", "fail"}
             /\ owner[d] = "deleted"
             /\ ServerDelete)
               => /\ deleteCall'[d].phase = "ok"
                  /\ owner' = owner
                  /\ log' = log
       /\ \A s \in SessionIds :
            owner[s] = "deleted" => (owner'[s] = "deleted" /\ log'[s] = <<>>)]_vars

C14_Witness ==
    \E d \in SessionIds :
       /\ deleteCall[d].phase = "ok"
       /\ deleteCall[d].wasGone
       /\ owner[d] = "deleted"
       /\ \E s \in SessionIds : owner[s] = AnonToken /\ log[s] # <<>>

\* the session named by the send in flight belongs to another identity
ForeignSend ==
    /\ send.sessionId # Undefined
    /\ owner[send.sessionId] \notin {"none", "deleted", Caller(send.bearer)}

\* C15: a chat request that names a session of another owner is never
\* answered: every answered request ran in a session that was the caller's or
\* was created for it, and the answer leaves the owner and the messages of
\* every other identity's session as they were.
C15_CrossOwnerForbidden ==
    [][FetchOk(AppWires)
          => /\ ~ForeignSend
             /\ owner[emitted'.session_id] \in {"none", Caller(send.bearer)}
             /\ \A s \in SessionIds :
                  owner[s] \notin {"none", Caller(send.bearer)}
                     => (owner'[s] = owner[s] /\ log'[s] = log[s])]_vars

C15_Witness ==
    /\ send.phase = "error"
    /\ ForeignSend
    /\ emitted = NoResponse
    /\ messages # <<>>
    /\ messages[Len(messages)].content = ApologyError

\* C16: in the message list of the chat every assistant message comes after
\* a user message.
C16_AssistantAfterSomeUser ==
    \A i \in 1..Len(messages) :
       messages[i].role = "assistant"
          => \E j \in 1..(i - 1) : messages[j].role = "user"

\* C17: every key of the sources map is the position, counted from zero, of
\* an assistant message that is in the message list.
C17_NoOrphanCitations ==
    \A k \in DOMAIN sources :
       /\ k + 1 \in 1..Len(messages)
       /\ messages[k + 1].role = "assistant"

C17_Witness ==
    /\ send.phase = "success"
    /\ (Len(messages) - 1) \in DOMAIN sources
    /\ \E j \in DOMAIN sources : j < Len(messages) - 1 /\ messages[j + 1].req # send.id

\* the answer in flight is complete and carries a metadata frame
MetadataDelivered ==
    /\ emitted # NoResponse
    /\ emitted.done
    /\ \E i \in 1..Len(emitted.frames) : ObjType(emitted.frames[i]) = "metadata"

\* C18: when a send made with no session id settles on a complete answer that
\* carries a metadata frame, the session the backend created for it becomes
\* the current session, and the next send is made under that session.
C18_SessionIdAdopted ==
    [][/\ (/\ send.phase = "reading"
           /\ send'.phase = "success"
           /\ send.sessionId = Undefined
           /\ MetadataDelivered)
            => currentSessionId' = emitted.session_id
       /\ (/\ send.phase = "success"
           /\ send'.phase = "fetch"
           /\ send.sessionId = Undefined
           /\ MetadataDelivered)
            => send'.sessionId = emitted.session_id]_vars

\* C19: an answered retrieval holds at most PINECONE_TOP_K matches, in
\* descending order of score, each with a score of at least the threshold and
\* each a passage of the index; no passage left out scores above a returned
\* one unless the result is full; and when no passage reaches the threshold
\* the result is empty and the answer has no citations.
C19_RetrievalBounded ==
    retrieval.phase = "answered"
       => LET ms == retrieval.matches
              cs == retrieval.candidates
          IN  /\ Len(ms) <= PINECONE_TOP_K
              /\ \A i \in 1..Len(ms) :
                    /\ ms[i].score >= PINECONE_SIMILARITY_THRESHOLD
                    /\ \E j \in 1..Len(cs) : cs[j] = ms[i]
                    /\ \A j \in 1..(i - 1) : ms[j].score >= ms[i].score /\ ms[j] # ms[i]
              /\ \A j \in 1..Len(cs) :
                    (/\ cs[j].score >= PINECONE_SIMILARITY_THRESHOLD
                     /\ \A i \in 1..Len(ms) : ms[i] # cs[j])
                       => /\ Len(ms) = PINECONE_TOP_K
                          /\ \A i \in 1..Len(ms) : ms[i].score >= cs[j].score
              /\ (\A j \in 1..Len(cs) : cs[j].score < PINECONE_SIMILARITY_THRESHOLD)
                    => (ms = <<>> /\ retrieval.citations = <<>>)
              /\ Len(retrieval.citations) = Len(ms)

C19_Witness ==
    /\ retrieval.phase = "answered"
    /\ Len(retrieval.candidates) = MaxCandidates
    /\ Len(retrieval.matches) = 2
    /\ \E j \in 1..Len(retrieval.candidates) : retrieval.candidates[j].score = 74

C19_WitnessEmpty ==
    /\ retrieval.phase = "answered"
    /\ retrieval.candidates # <<>>
    /\ retrieval.matches = <<>>
    /\ retrieval.citations = <<>>

\* C20: an authenticated client can always send, and when a send that was
\* made by an authenticated client (it carries the bearer token) settles, the
\* anonymous message count is the same after as before, in AuthState and in
\* localStorage.
C20_AuthenticatedUnlimited ==
    [][/\ state.isAuthenticated => canSendMessage
       /\ (SendSettles /\ send.bearer # Null)
            => /\ state'.anonymousMessageCount = state.anonymousMessageCount
               /\ localStorage'.anonymous_message_count
                     = localStorage.anonymous_message_count]_vars

\* C13: what a reader has collected by paging forward with the returned
\* cursors is the session's log from its first message on, every message once
\* and none left out, in strictly increasing order of timestamp; the cursor is
\* the position of the last message seen; and when the store reports no more
\* messages the reader has seen all the messages the session then had.
C13_PagingExactlyOnce ==
    listing.session # Undefined
       => LET l == log[listing.session]
              seen == listing.seen
          IN  /\ Len(seen) <= Len(l)
              /\ seen = SubSeq(l, 1, Len(seen))
              /\ listing.cursor = Len(seen)
              /\ \A i \in 1..Len(seen) : \A j \in 1..(i - 1) :
                    seen[j].timestamp < seen[i].timestamp
              /\ (~listing.has_more /\ listing.totals # <<>>)
                    => Len(seen) = listing.totals[Len(listing.totals)]

C13_Witness ==
    /\ listing.session # Undefined
    /\ ~listing.has_more
    /\ Len(listing.totals) >= 2
    /\ listing.totals[1] < listing.totals[Len(listing.totals)]
    /\ Len(listing.seen) = MaxLog

\* the sends of the two tabs are in flight together, against the same session
ConcurrentSends ==
    /\ send.phase \in {"fetch", "reading"}
    /\ tabB.phase = "sending"
    /\ send.sessionId # Undefined
    /\ send.sessionId = tabB.currentSessionId

\* C12: when two sends against the same session are in flight together, each
\* one that succeeds raises the stored anonymous count by exactly one, and in
\* the session's log every assistant message directly follows the user
\* message of its own request.
C12_ConcurrentSendsSerialised ==
    [][/\ (ConcurrentSends /\ (TabSendDone \/ send'.phase = "success"))
            => StoredCount(localStorage') = StoredCount(localStorage) + 1
       /\ \A s \in SessionIds : \A i \in 1..Len(log'[s]) :
            log'[s][i].role = "assistant"
               => /\ i > 1
                  /\ log'[s][i - 1].role = "user"
                  /\ log'[s][i - 1].req = log'[s][i].req]_vars

\* C21: when register is invoked by an anonymous client that has sent at
\* least one message, the call that leaves is promote-anonymous and it names
\* the client's anonymous identity.
C21_RegisterPromotesAnonymous ==
    [][(RegisterStart /\ state.isAnonymous /\ state.anonymousMessageCount > 0)
          => /\ authCall'.kind = "promote"
             /\ authCall'.anonymous_session_id = AnonToken]_vars

\* C22: once every delete has settled, and no fetch has replaced the cached
\* list since the first of them began, the cached list is the list cached
\* before them without the sessions whose delete succeeded, in the same order.
C22_OptimisticDeleteRollback ==
    (DeletesInFlight = {} /\ sessionsQuery.clean)
       => sessionsQuery.data = sessionsQuery.expected

\* C23: nothing of a frame that follows the end marker reaches the consumer;
\* once the generator has ended (on the marker, on the end of the body, or on
\* a failed read) no read is left to it and the reader's lock is released.
C23_StopsAtDone ==
    /\ \A i \in 1..Len(send.fullResponse) :
          \A j \in 1..Len(emitted.trail) :
              ObjData(emitted.trail[j]) # <<>> => send.fullResponse[i] # ObjData(emitted.trail[j])[1]
    /\ send.phase \in {"success", "error"} => (net = <<>> /\ ~send.locked)
    /\ send.locked => send.phase = "reading"

\* the step in which the response stream of the send in flight ends
StreamEnds ==
    /\ send.phase \in {"fetch", "reading"}
    /\ send'.phase \in {"success", "error"}

\* the step appends exactly one assistant message of the send, with this content
AppendsAssistant(content) ==
    messages' = Append(messages, [role |-> "assistant", content |-> content,
                                  req |-> send.id])

\* C24: when the response stream of a send ends (end marker, end of the body,
\* or a failed request or read), exactly one assistant message of that send is
\* appended: the concatenation of the received content deltas when the stream
\* ended normally with content, and a notice of the error otherwise (the
\* error notice on a failure, the notice of a failed generation when nothing
\* was received); isStreaming is then false and streamingContent empty.
C24_OneAssistantPerSend ==
    [][StreamEnds
          => /\ AppendsAssistant(CASE send'.phase = "error" -> ApologyError
                                   [] send'.fullResponse = <<>> -> ApologyGenerating
                                   [] OTHER -> send'.fullResponse)
             /\ ~isStreaming'
             /\ streamingContent' = <<>>]_vars

\* C24 witness: a send has ended normally with content received, and the
\* message list ends with its one assistant message, the content received.
C24_Witness ==
    /\ send.phase = "success"
    /\ send.fullResponse # <<>>
    /\ messages # <<>>
    /\ messages[Len(messages)] = [role |-> "assistant", content |-> send.fullResponse,
                                  req |-> send.id]
    /\ Cardinality({i \in 1..Len(messages) :
                       messages[i].role = "assistant" /\ messages[i].req = send.id}) = 1
    /\ ~isStreaming
    /\ streamingContent = <<>>

\* C24 witness of the notices: a send has failed and the list ends with its
\* error notice.
C24_WitnessNotice ==
    /\ send.phase = "error"
    /\ messages # <<>>
    /\ messages[Len(messages)] = [role |-> "assistant", content |-> ApologyError,
                                  req |-> send.id]
    /\ ~isStreaming
    /\ streamingContent = <<>>

\* the backend holds the displayed message m in the log of session s
LoggedIn(m, s) ==
    \E k \in 1..Len(log[s]) : log[s][k].req = m.req /\ log[s][k].role = m.role

\* C25: when no send, no session load and no delete is pending and a session
\* is current, every displayed message that the backend holds in the log of a
\* session is held in the log of the current session.
C25_MessagesOfCurrentSession ==
    (/\ ~isLoading
     /\ selectCall.phase = "idle"
     /\ DeletesInFlight = {}
     /\ currentSessionId # Undefined)
        => \A i \in 1..Len(messages) :
              \A s \in SessionIds :
                  LoggedIn(messages[i], s) => s = currentSessionId

\* C26: from a state in which the client is anonymous, holds no token and its
\* stored count has reached the limit, no step starts a chat request, whether
\* or not the mount effect has read the stored count yet.
C26_AtLimitNoSendWhileLoading ==
    [][ (/\ state.isAnonymous
         /\ localStorage.access_token = Null
         /\ StoredCount(localStorage) >= ANONYMOUS_MESSAGE_LIMIT)
        => (nSends' = nSends /\ ~(send'.phase = "fetch" /\ send.phase # "fetch")) ]_vars

\* the text holds nothing but spaces
Blank(text) == \A i \in 1..Len(text) : text[i] = " "

FailingAuthStep ==
    \/ LoginStart
    \/ RegisterStart
    \/ ServerAuth /\ authCall'.resp = "fail"
    \/ AuthSettle /\ authCall.resp = "fail"

\* C28: no step of a login, register or promote call that fails changes the
\* AuthState (user, isAuthenticated, isAnonymous, anonymousMessageCount) or
\* localStorage (access token, anonymous count, anonymous session id).
C28_FailedAuthChangesNothing ==
    [][FailingAuthStep => (state' = state /\ localStorage' = localStorage)]_vars

\* C28 witness: a login of an anonymous client with counted messages has been
\* refused; the client is still anonymous with its count, stored and in
\* memory, and holds no token.
C28_Witness ==
    /\ authCall.kind = "login"
    /\ authCall.resp = "fail"
    /\ state.isAnonymous
    /\ ~state.isAuthenticated
    /\ state.user = Null
    /\ state.anonymousMessageCount > 0
    /\ localStorage.anonymous_message_count = toString(state.anonymousMessageCount)
    /\ localStorage.access_token = Null

\* the step settles the delete call of session s
DeleteSettles(s) ==
    /\ DeleteSettle
    /\ deleteCall[s].phase \in {"ok", "fail"}
    /\ deleteCall'[s].phase = "idle"

\* C29: when the delete of a session settles, the current session id and the
\* displayed messages are cleared if the delete succeeded and the session was
\* the one selected when its delete was asked for; they are left as they are
\* if another session was selected then, and if the delete failed. The steps
\* of a delete before it settles leave them as they are too.
C29_DeleteFrame ==
    [][/\ \A s \in SessionIds :
             DeleteSettles(s)
                => IF deleteCall[s].phase = "ok" /\ deleteCall[s].current = s
                   THEN currentSessionId' = Undefined /\ messages' = <<>>
                   ELSE currentSessionId' = currentSessionId /\ messages' = messages
       /\ (DeleteStart(MaxDeletes) \/ ServerDelete \/ DeleteFail)
            => (currentSessionId' = currentSessionId /\ messages' = messages)]_vars

\* C29 witness: the delete of a session other than the current one has
\* succeeded and settled; the current session and its messages are still shown.
C29_Witness ==
    /\ DeletesInFlight = {}
    /\ currentSessionId # Undefined
    /\ messages # <<>>
    /\ \E s \in SessionIds :
          /\ owner[s] = "deleted"
          /\ ~Listed(s)
          /\ s # currentSessionId

\* C29 witness of the other case: the delete of the session that is current,
\* and was when the delete was asked for, has succeeded and is about to settle.
C29_WitnessCurrent ==
    \E s \in SessionIds :
        /\ deleteCall[s].phase = "ok"
        /\ deleteCall[s].current = s
        /\ currentSessionId = s
        /\ messages # <<>>

\* C30: in every reachable AuthState exactly one of isAuthenticated and
\* isAnonymous is true, and an authenticated state holds the user record.
C30_AuthStateWellFormed ==
    /\ state.isAuthenticated # state.isAnonymous
    /\ state.isAuthenticated => state.user # Null

====
